---- MODULE Spec2Model ----
(***************************************************************************)
(* windu: a disk-usage explorer.  A scanner thread walks a directory tree, *)
(* builds a tree of nodes, aggregates directory sizes and sorts children   *)
(* by size; the main thread shows a progress dialog fed by the shared      *)
(* ScanState and then navigates the finished tree.                         *)
(***************************************************************************)
EXTENDS Integers, Sequences, FiniteSets, TLC

\* ---------------------------------------------------------------- bounds
\* Largest number of entries (directories and files) below the scanned root.
MaxEntries == 3
\* Largest size in bytes of a file.
MaxSize == 2
\* Largest terminal height (rows) reported by getmaxyx.
MaxHeight == 5

\* ------------------------------------------------------ program constants
\* Python's None (the initial state.tree).
None == -1
\* os.path.getsize raising OSError instead of returning a size.
OSError == -2
\* The root node created by the build pass; nodes are named by entry number.
root_node == 0

Threads == {"main", "scanner"}
NoThread == "free"

\* --------------------------------------------------------------- state
VARIABLES
    fs,                 \* the directory tree on disk (the scanner's input)
    lock,               \* ScanState.lock: its holder, or NoThread
    state,              \* the ScanState fields
    nodes,              \* the node dicts built by the scanner, by entry number
    pc,                 \* position of each thread
    total_items,        \* scanner_worker local: result of the count pass
    walk,               \* the os.walk generator: directories still to be yielded
    walk_root,          \* scanner_worker local: root of the current os.walk item
    entries,            \* entries of walk_root the two inner loops have yet to visit
    update_args,        \* arguments of the ScanState.update call in progress
    done_arg,           \* per thread: the argument of its set_done call
    snap,               \* draw_dialog local: the tuple last returned by get_state
    unlocked,           \* accesses to ScanState fields made without the lock
    calls,              \* how many calls of each ScanState method the scanner made
    aborted,            \* draw_dialog returned because a quit key was pressed
    history,            \* draw_tree_view local: deque of visited directories
    current_selection,  \* draw_tree_view local
    scroll_top,         \* draw_tree_view local
    sort_descending,    \* draw_tree_view local
    h                   \* draw_tree_view local: terminal height of the frame

scanVars == <<total_items, walk, walk_root, entries, update_args, calls>>
navVars == <<history, current_selection, scroll_top, sort_descending, h>>
vars == <<fs, lock, state, nodes, pc, total_items, walk, walk_root, entries,
          update_args, done_arg, snap, unlocked, calls, aborted, history,
          current_selection, scroll_top, sort_descending, h>>

\* ------------------------------------------------------- the file system
\* An entry i in 1..fs.n has a kind, a parent directory (0 is the scanned
\* root) and, for a file, the result of os.path.getsize.
RECURSIVE OnPath(_, _, _)
OnPath(par, a, j) == a = j \/ (j # 0 /\ OnPath(par, a, par[j]))

\* Entries are numbered in the order of a top-down walk, so the parent of
\* entry i is entry i-1 or one of its ancestors.
IsFS(n, kind, par, stat) ==
    \A i \in 1..n :
        /\ par[i] < i
        /\ OnPath(par, par[i], i - 1)
        /\ par[i] = 0 \/ kind[par[i]] = "directory"
        /\ kind[i] = "directory" => stat[i] = 0
        /\ kind[i] = "file" => stat[i] # 0

FileSystems ==
    UNION { { [n |-> n, kind |-> kind, par |-> par, stat |-> stat] :
                <<kind, par, stat>> \in
                    { t \in [1..n -> {"directory", "file"}]
                            \X [1..n -> 0..(n-1)]
                            \X [1..n -> {OSError} \cup 0..MaxSize] :
                        IsFS(n, t[1], t[2], t[3]) } } :
            n \in 0..MaxEntries }

RECURSIVE SeqOfRange(_, _)
SeqOfRange(a, b) == IF a > b THEN <<>> ELSE <<a>> \o SeqOfRange(a + 1, b)

IsDirEntry(f, d, i) == f.par[i] = d /\ f.kind[i] = "directory"
IsFileEntry(f, d, i) == f.par[i] = d /\ f.kind[i] = "file"

\* os.walk yields (root, dirs, files) for each directory.
Dirs(f, d) == SelectSeq(SeqOfRange(1, f.n), LAMBDA i : IsDirEntry(f, d, i))
Files(f, d) == SelectSeq(SeqOfRange(1, f.n), LAMBDA i : IsFileEntry(f, d, i))

\* os.walk(topdown=True): a directory, then each of its subdirectories in turn.
RECURSIVE WalkOrder(_, _), WalkEach(_, _)
WalkOrder(f, d) == <<d>> \o WalkEach(f, Dirs(f, d))
WalkEach(f, ds) ==
    IF ds = <<>> THEN <<>> ELSE WalkOrder(f, Head(ds)) \o WalkEach(f, Tail(ds))

\* os.path.join(root, name): a path is the sequence of entries leading to it.
RECURSIVE PathOf(_, _)
PathOf(f, e) == IF e = 0 THEN <<>> ELSE PathOf(f, f.par[e]) \o <<e>>

\* Pass 1: total_items += len(dirs) + len(files) over the walk.
RECURSIVE CountItems(_, _), CountItemsFilesOnly(_, _)
CountItemsFilesOnly(f, order) ==
    IF order = <<>> THEN 0
    ELSE Len(Files(f, Head(order))) + CountItemsFilesOnly(f, Tail(order))
CountItems(f, order) ==
    IF order = <<>> THEN 0
    ELSE Len(Dirs(f, Head(order))) + Len(Files(f, Head(order)))
         + CountItems(f, Tail(order))

\* ------------------------------------------------------------ tree nodes
DirNode(parent) ==
    [type |-> "directory", size |-> 0, children |-> <<>>, parent |-> parent]
FileNode(parent, size) ==
    [type |-> "file", size |-> size, children |-> <<>>, parent |-> parent]

\* parent_node['children'].append(node)
Link(ns, parent, e, node) ==
    [i \in DOMAIN ns \cup {e} |->
        IF i = e THEN node
        ELSE IF i = parent THEN [ns[i] EXCEPT !.children = Append(@, e)]
        ELSE ns[i]]

\* calculate_dir_size(node): the value it returns; a file returns its own
\* size, a directory the sum of the values returned for its children.
RECURSIVE SumStored(_, _)
SumStored(ns, cs) ==
    IF cs = <<>> THEN 0 ELSE ns[Head(cs)].size + SumStored(ns, Tail(cs))

RECURSIVE calculate_dir_size(_, _), SumSizes(_, _)
calculate_dir_size_stored(ns, e) ==
    IF ns[e].type = "file" THEN ns[e].size ELSE SumStored(ns, ns[e].children)
calculate_dir_size(ns, e) ==
    IF ns[e].type = "file" THEN ns[e].size ELSE SumSizes(ns, ns[e].children)
SumSizes(ns, cs) ==
    IF cs = <<>> THEN 0
    ELSE calculate_dir_size(ns, Head(cs)) + SumSizes(ns, Tail(cs))

\* The nodes reached by calculate_dir_size(root): every directory among them
\* has its size assigned.
RECURSIVE Reach(_, _)
Reach(ns, e) ==
    {e} \cup UNION { Reach(ns, ns[e].children[k]) : k \in DOMAIN ns[e].children }

Aggregate(ns) ==
    [i \in DOMAIN ns |->
        IF i \in Reach(ns, root_node) /\ ns[i].type = "directory"
        THEN [ns[i] EXCEPT !.size = calculate_dir_size(ns, i)]
        ELSE ns[i]]

\* list.sort(key=size, reverse=...): stable; with reverse=True equal elements
\* still keep their original order.
RECURSIVE InsertSorted(_, _, _, _)
InsertSorted(s, x, ns, reverse) ==
    IF s = <<>> THEN <<x>>
    ELSE IF (IF reverse THEN ns[Head(s)].size >= ns[x].size
                        ELSE ns[Head(s)].size <= ns[x].size)
         THEN <<Head(s)>> \o InsertSorted(Tail(s), x, ns, reverse)
         ELSE <<x>> \o s

RECURSIVE SortFrom(_, _, _, _)
SortFrom(acc, s, ns, reverse) ==
    IF s = <<>> THEN acc
    ELSE SortFrom(InsertSorted(acc, Head(s), ns, reverse), Tail(s), ns, reverse)

RECURSIVE ReverseSeq(_)
ReverseSeq(s) == IF s = <<>> THEN <<>> ELSE ReverseSeq(Tail(s)) \o <<Head(s)>>

SortBySizeUnstable(s, ns, reverse) ==
    ReverseSeq(SortFrom(<<>>, s, ns, ~reverse))
SortBySize(s, ns, reverse) == SortFrom(<<>>, s, ns, reverse)

\* sort_children_recursively(root_node): every directory reached is sorted.
SortAll(ns) ==
    [i \in DOMAIN ns |->
        IF i \in Reach(ns, root_node) /\ ns[i].type = "directory"
        THEN [ns[i] EXCEPT !.children = SortBySize(@, ns, TRUE)]
        ELSE ns[i]]

\* --------------------------------------------------------------- Init
NoSnap == <<>>
NoArgs == <<>>

Init ==
    /\ fs \in FileSystems
    /\ lock = NoThread
    /\ state = [total_items |-> 0, scanned_items |-> 0, dir_count |-> 0,
                file_count |-> 0, total_size |-> 0, current_path |-> <<>>,
                done |-> FALSE, tree |-> None]
    /\ nodes = <<>>
    /\ pc = [main |-> "draw_dialog", scanner |-> "count"]
    /\ total_items = 0
    /\ walk = <<>>
    /\ walk_root = None
    /\ entries = <<>>
    /\ update_args = NoArgs
    /\ done_arg = [main |-> None, scanner |-> None]
    /\ snap = NoSnap
    /\ unlocked = {}
    /\ calls = [set_total_items |-> 0, update |-> 0, set_done |-> 0]
    /\ aborted = FALSE
    /\ history = <<>>
    /\ current_selection = 0
    /\ scroll_top = 0
    /\ sort_descending = TRUE
    /\ h = 0


\* ------------------------------------------------------------- helpers
At(t, where) == pc[t] = where
Goto(t, where) == pc' = [pc EXCEPT ![t] = where]

\* `with self.lock:` entered and left by thread t.
Acquire(t) == lock = NoThread /\ lock' = t
Release(t) == lock' = NoThread

\* Thread t reads or writes the ScanState fields fields; the access is
\* recorded when t does not hold the lock.
Touch(t, fields) ==
    unlocked' = unlocked \cup (IF lock = t THEN {} ELSE {<<t, f>> : f \in fields})

\* The tuple built by get_state (lines 32-35).
StateTuple ==
    <<state.total_items, state.scanned_items, state.dir_count,
      state.file_count, state.total_size, state.current_path, state.done>>

\* ------------------------------------------------------ scanner_worker
\* Pass 1 (lines 59-61).
count_pass ==
    /\ At("scanner", "count")
    /\ total_items' = CountItems(fs, WalkOrder(fs, 0))
    /\ Goto("scanner", "set_total_items")
    /\ UNCHANGED <<fs, aborted, calls, lock, state, nodes, walk, walk_root, entries, update_args,
                   done_arg, snap, unlocked, navVars>>

\* ScanState.set_total_items (lines 37-39).
set_total_items_enter ==
    /\ At("scanner", "set_total_items")
    /\ Acquire("scanner")
    /\ calls' = [calls EXCEPT !.set_total_items = @ + 1]
    /\ Goto("scanner", "set_total_items_body")
    /\ UNCHANGED <<fs, aborted, state, nodes, total_items, walk, walk_root, entries,
                   update_args, done_arg, snap, unlocked, navVars>>

set_total_items ==
    /\ At("scanner", "set_total_items_body")
    /\ state' = [state EXCEPT !.total_items = total_items]
    /\ Touch("scanner", {"total_items"})
    /\ Release("scanner")
    /\ Goto("scanner", "build_start")
    /\ UNCHANGED <<fs, aborted, nodes, scanVars, done_arg, snap, navVars>>

\* Lines 65-66: the root node and the path map.
build_start_published ==
    /\ At("scanner", "build_start")
    /\ nodes' = (root_node :> DirNode(None))
    /\ state' = [state EXCEPT !.tree = root_node]
    /\ walk' = WalkOrder(fs, root_node)
    /\ walk_root' = None
    /\ entries' = <<>>
    /\ Goto("scanner", "build")
    /\ UNCHANGED <<fs, aborted, calls, lock, total_items, update_args, done_arg, snap,
                   unlocked, navVars>>

build_start ==
    /\ At("scanner", "build_start")
    /\ nodes' = (root_node :> DirNode(None))
    /\ walk' = WalkOrder(fs, root_node)
    /\ walk_root' = None
    /\ entries' = <<>>
    /\ Goto("scanner", "build")
    /\ UNCHANGED <<fs, aborted, calls, lock, state, total_items, update_args, done_arg, snap,
                   unlocked, navVars>>

\* The entry the inner loops are at: dirs are visited first, then files.
CurrentEntry == Head(entries)

\* Lines 70-75: one iteration of `for d in dirs`, up to the update call.
build_dir ==
    /\ At("scanner", "build")
    /\ entries # <<>>
    /\ fs.kind[CurrentEntry] = "directory"
    /\ nodes' = Link(nodes, walk_root, CurrentEntry, DirNode(walk_root))
    /\ update_args' = [path |-> PathOf(fs, CurrentEntry), is_file |-> FALSE,
                       size |-> 0]
    /\ Goto("scanner", "update")
    /\ UNCHANGED <<fs, aborted, calls, lock, state, total_items, walk, walk_root, entries,
                   done_arg, snap, unlocked, navVars>>

\* Lines 78-87: one iteration of `for f in files`, up to the update call.
\* When getsize raises, control passes to the except clause before the node
\* is created.
build_file ==
    /\ At("scanner", "build")
    /\ entries # <<>>
    /\ fs.kind[CurrentEntry] = "file"
    /\ IF fs.stat[CurrentEntry] = OSError
       THEN /\ nodes' = nodes
            /\ update_args' = [path |-> PathOf(fs, CurrentEntry),
                               is_file |-> TRUE, size |-> 0]
       ELSE /\ nodes' = Link(nodes, walk_root, CurrentEntry,
                             FileNode(walk_root, fs.stat[CurrentEntry]))
            /\ update_args' = [path |-> PathOf(fs, CurrentEntry),
                               is_file |-> TRUE, size |-> fs.stat[CurrentEntry]]
    /\ Goto("scanner", "update")
    /\ UNCHANGED <<fs, aborted, calls, lock, state, total_items, walk, walk_root, entries,
                   done_arg, snap, unlocked, navVars>>

\* ScanState.update (lines 20-28), statement by statement under the lock.
update_enter ==
    /\ At("scanner", "update")
    /\ Acquire("scanner")
    /\ calls' = [calls EXCEPT !.update = @ + 1]
    /\ Goto("scanner", "update_scanned_items")
    /\ UNCHANGED <<fs, aborted, state, nodes, total_items, walk, walk_root, entries,
                   update_args, done_arg, snap, unlocked, navVars>>

\* Lines 22-23.
update_scanned_items ==
    /\ At("scanner", "update_scanned_items")
    /\ state' = [state EXCEPT !.scanned_items = @ + 1,
                              !.current_path = update_args.path]
    /\ Touch("scanner", {"scanned_items", "current_path"})
    /\ Goto("scanner", "update_counts")
    /\ UNCHANGED <<fs, aborted, lock, nodes, scanVars, done_arg, snap, navVars>>

\* Lines 24-28 and the end of the with block; back in the build loop the
\* next entry is taken (time.sleep changes nothing).
update_counts_assign ==
    /\ At("scanner", "update_counts")
    /\ IF update_args.is_file
       THEN /\ state' = [state EXCEPT !.file_count = @ + 1,
                                      !.total_size = update_args.size]
            /\ Touch("scanner", {"file_count", "total_size"})
       ELSE /\ state' = [state EXCEPT !.dir_count = @ + 1]
            /\ Touch("scanner", {"dir_count"})
    /\ Release("scanner")
    /\ update_args' = NoArgs
    /\ entries' = Tail(entries)
    /\ Goto("scanner", "build")
    /\ UNCHANGED <<fs, aborted, calls, nodes, total_items, walk, walk_root, done_arg, snap,
                   navVars>>

update_counts ==
    /\ At("scanner", "update_counts")
    /\ IF update_args.is_file
       THEN /\ state' = [state EXCEPT !.file_count = @ + 1,
                                      !.total_size = @ + update_args.size]
            /\ Touch("scanner", {"file_count", "total_size"})
       ELSE /\ state' = [state EXCEPT !.dir_count = @ + 1]
            /\ Touch("scanner", {"dir_count"})
    /\ Release("scanner")
    /\ update_args' = NoArgs
    /\ entries' = Tail(entries)
    /\ Goto("scanner", "build")
    /\ UNCHANGED <<fs, aborted, calls, nodes, total_items, walk, walk_root, done_arg, snap,
                   navVars>>

\* Line 68: os.walk yields the next directory.
walk_next ==
    /\ At("scanner", "build")
    /\ entries = <<>>
    /\ walk # <<>>
    /\ walk' = Tail(walk)
    /\ walk_root' = Head(walk)
    /\ entries' = Dirs(fs, Head(walk)) \o Files(fs, Head(walk))
    /\ UNCHANGED <<fs, aborted, calls, lock, state, nodes, pc, total_items, update_args,
                   done_arg, snap, unlocked, navVars>>

\* Line 68: os.walk is exhausted.
walk_end ==
    /\ At("scanner", "build")
    /\ entries = <<>>
    /\ walk = <<>>
    /\ Goto("scanner", "aggregate")
    /\ UNCHANGED <<fs, aborted, lock, state, nodes, scanVars, done_arg, snap, unlocked,
                   navVars>>

\* Pass 3 (lines 91-97).
aggregate_pass_then_set_done ==
    /\ At("scanner", "aggregate")
    /\ nodes' = Aggregate(nodes)
    /\ done_arg' = [done_arg EXCEPT !.scanner = root_node]
    /\ Goto("scanner", "set_done")
    /\ UNCHANGED <<fs, aborted, lock, state, scanVars, snap, unlocked, navVars>>
aggregate_pass ==
    /\ At("scanner", "aggregate")
    /\ nodes' = Aggregate(nodes)
    /\ Goto("scanner", "sort")
    /\ UNCHANGED <<fs, aborted, lock, state, scanVars, done_arg, snap, unlocked, navVars>>

\* Pass 4 (lines 100-106) and the argument of the set_done call (line 107).
sort_pass ==
    /\ At("scanner", "sort")
    /\ nodes' = SortAll(nodes)
    /\ done_arg' = [done_arg EXCEPT !.scanner = root_node]
    /\ Goto("scanner", "set_done")
    /\ UNCHANGED <<fs, aborted, lock, state, scanVars, snap, unlocked, navVars>>

\* ScanState.set_done (lines 41-44), called by the scanner (line 107) and
\* by main (line 274).
set_done_enter(t) ==
    /\ At(t, "set_done")
    /\ Acquire(t)
    /\ calls' = IF t = "scanner" THEN [calls EXCEPT !.set_done = @ + 1] ELSE calls
    /\ Goto(t, "set_done_flag")
    /\ UNCHANGED <<fs, aborted, state, nodes, total_items, walk, walk_root, entries,
                   update_args, done_arg, snap, unlocked, navVars>>

set_done_flag_tree_only(t) ==
    /\ At(t, "set_done_flag")
    /\ Touch(t, {"done"})
    /\ Goto(t, "set_done_tree")
    /\ UNCHANGED <<fs, aborted, lock, state, nodes, scanVars, done_arg, snap, navVars>>
set_done_flag(t) ==
    /\ At(t, "set_done_flag")
    /\ state' = [state EXCEPT !.done = TRUE]
    /\ Touch(t, {"done"})
    /\ Goto(t, "set_done_tree")
    /\ UNCHANGED <<fs, aborted, lock, nodes, scanVars, done_arg, snap, navVars>>

set_done_tree(t) ==
    /\ At(t, "set_done_tree")
    /\ state' = [state EXCEPT !.tree = done_arg[t]]
    /\ Touch(t, {"tree"})
    /\ Release(t)
    /\ done_arg' = [done_arg EXCEPT ![t] = None]
    /\ Goto(t, IF t = "scanner" THEN "finished" ELSE "join")
    /\ UNCHANGED <<fs, aborted, nodes, scanVars, snap, navVars>>


\* --------------------------------------------------------- draw_dialog
\* ScanState.get_state (lines 30-35), called at the top of the loop (line 116).
get_state_enter_unlocked ==
    /\ At("main", "get_state")
    /\ snap' = StateTuple
    /\ Goto("main", "draw_dialog_key")
    /\ UNCHANGED <<fs, aborted, lock, state, nodes, scanVars, done_arg, unlocked, navVars>>

get_state_enter ==
    /\ At("main", "get_state")
    /\ Acquire("main")
    /\ Goto("main", "get_state_return")
    /\ UNCHANGED <<fs, aborted, state, nodes, scanVars, done_arg, snap, unlocked, navVars>>

get_state_return ==
    /\ At("main", "get_state_return")
    /\ snap' = StateTuple
    /\ Touch("main", {"total_items", "scanned_items", "dir_count", "file_count",
                      "total_size", "current_path", "done"})
    /\ Release("main")
    /\ Goto("main", "draw_dialog_key")
    /\ UNCHANGED <<fs, aborted, state, nodes, scanVars, done_arg, navVars>>

\* Lines 141-143: the snapshot says done; draw_dialog returns.
draw_dialog_done ==
    /\ At("main", "draw_dialog_key")
    /\ snap[7]
    /\ snap' = NoSnap
    /\ Goto("main", "main_set_done")
    /\ UNCHANGED <<fs, aborted, lock, state, nodes, scanVars, done_arg, unlocked, navVars>>

\* Lines 144-145: q, Q or Escape; draw_dialog returns.
draw_dialog_quit ==
    /\ At("main", "draw_dialog_key")
    /\ ~snap[7]
    /\ snap' = NoSnap
    /\ aborted' = TRUE
    /\ Goto("main", "main_set_done")
    /\ UNCHANGED <<fs, lock, state, nodes, scanVars, done_arg, unlocked, navVars>>

\* Line 144: another key, or the 100 ms timeout; the loop goes round.
draw_dialog_poll ==
    /\ At("main", "draw_dialog_key")
    /\ ~snap[7]
    /\ Goto("main", "get_state")
    /\ UNCHANGED <<fs, aborted, lock, state, nodes, scanVars, done_arg, snap, unlocked,
                   navVars>>

\* ---------------------------------------------------------------- main
\* Lines 265-272: the scanner thread is started and draw_dialog entered.
main_start ==
    /\ At("main", "draw_dialog")
    /\ Goto("main", "get_state")
    /\ UNCHANGED <<fs, aborted, lock, state, nodes, scanVars, done_arg, snap, unlocked,
                   navVars>>

\* Line 274: the argument state.tree is evaluated, before set_done is entered.
main_set_done_arg ==
    /\ At("main", "main_set_done")
    /\ done_arg' = [done_arg EXCEPT !.main = state.tree]
    /\ Touch("main", {"tree"})
    /\ Goto("main", "set_done")
    /\ UNCHANGED <<fs, aborted, lock, state, nodes, scanVars, snap, navVars>>

\* Line 275: join returns because the scanner thread has ended.
join_finished ==
    /\ At("main", "join")
    /\ At("scanner", "finished")
    /\ Goto("main", "main_check_tree")
    /\ UNCHANGED <<fs, aborted, lock, state, nodes, scanVars, done_arg, snap, unlocked,
                   navVars>>

\* Line 275: join returns because its 2 s timeout expired.
join_without_timeout ==
    /\ At("main", "join")
    /\ At("scanner", "finished")
    /\ Goto("main", "main_check_tree")
    /\ UNCHANGED <<fs, aborted, lock, state, nodes, scanVars, done_arg, snap, unlocked,
                   navVars>>
join_timeout ==
    /\ At("main", "join")
    /\ ~At("scanner", "finished")
    /\ Goto("main", "main_check_tree")
    /\ UNCHANGED <<fs, aborted, lock, state, nodes, scanVars, done_arg, snap, unlocked,
                   navVars>>

\* Line 277: `if state.tree:`.
main_check_tree ==
    /\ At("main", "main_check_tree")
    /\ Touch("main", {"tree"})
    /\ Goto("main", IF state.tree # None THEN "main_call_tree_view" ELSE "exit")
    /\ UNCHANGED <<fs, aborted, lock, state, nodes, scanVars, done_arg, snap, navVars>>

\* Line 278 and lines 167-170: state.tree is read again and becomes the
\* tree of draw_tree_view, whose navigation state is initialised.
main_call_tree_view ==
    /\ At("main", "main_call_tree_view")
    /\ Touch("main", {"tree"})
    /\ history' = <<state.tree>>
    /\ current_selection' = 0
    /\ scroll_top' = 0
    /\ sort_descending' = TRUE
    /\ Goto("main", "draw_tree_view")
    /\ UNCHANGED <<fs, aborted, lock, state, nodes, scanVars, done_arg, snap, h>>

\* ------------------------------------------------------ draw_tree_view
Heights == 3..MaxHeight

\* Lines 173-174.
current_node == history[Len(history)]
children == nodes[current_node].children

\* Python's list indexing: s[i] with i counted from 0, negative i from the end.
Item(s, i) == IF i >= 0 THEN s[i + 1] ELSE s[Len(s) + i + 1]

Max(a, b) == IF a >= b THEN a ELSE b
Min(a, b) == IF a <= b THEN a ELSE b

InTreeView == At("main", "draw_tree_view") \/ At("main", "tree_view_frame")

\* Lines 173-235: one frame; the scrolling logic of lines 187-190.
ScrollUp(sel, top) == IF sel < top THEN sel ELSE top
ScrollDownOneLess(sel, top, hh) == IF sel >= top + hh - 3 THEN sel - hh + 3 ELSE top
ScrollDown(sel, top, hh) == IF sel >= top + hh - 3 THEN sel - hh + 4 ELSE top

tree_view_frame ==
    /\ InTreeView
    /\ \E hh \in Heights :
        /\ h' = hh
        /\ scroll_top' = ScrollDown(current_selection,
                                    ScrollUp(current_selection, scroll_top), hh)
    /\ Goto("main", "getch")
    /\ UNCHANGED <<fs, aborted, lock, state, nodes, scanVars, done_arg, snap, unlocked,
                   history, current_selection, sort_descending>>

\* Lines 239-240.
key_up ==
    /\ At("main", "getch")
    /\ current_selection' = Max(0, current_selection - 1)
    /\ h' = 0
    /\ Goto("main", "tree_view_frame")
    /\ UNCHANGED <<fs, aborted, lock, state, nodes, scanVars, done_arg, snap, unlocked,
                   history, scroll_top, sort_descending>>

\* Lines 241-242.
key_down ==
    /\ At("main", "getch")
    /\ current_selection' = Min(Len(children) - 1, current_selection + 1)
    /\ h' = 0
    /\ Goto("main", "tree_view_frame")
    /\ UNCHANGED <<fs, aborted, lock, state, nodes, scanVars, done_arg, snap, unlocked,
                   history, scroll_top, sort_descending>>

\* Lines 243-245.
VisibleRows(s) ==
    [k \in 1..(Min(Len(s), scroll_top + h - 3) - Max(scroll_top, 0)) |->
        s[Max(scroll_top, 0) + k]]
key_sort_visible_rows ==
    /\ At("main", "getch")
    /\ sort_descending' = ~sort_descending
    /\ nodes' = [nodes EXCEPT ![current_node].children =
                    SortBySize(VisibleRows(@), nodes, ~sort_descending)]
    /\ h' = 0
    /\ Goto("main", "tree_view_frame")
    /\ UNCHANGED <<fs, aborted, lock, state, scanVars, done_arg, snap, unlocked,
                   history, current_selection, scroll_top>>

key_sort ==
    /\ At("main", "getch")
    /\ sort_descending' = ~sort_descending
    /\ nodes' = [nodes EXCEPT ![current_node].children =
                    SortBySize(@, nodes, ~sort_descending)]
    /\ h' = 0
    /\ Goto("main", "tree_view_frame")
    /\ UNCHANGED <<fs, aborted, lock, state, scanVars, done_arg, snap, unlocked,
                   history, current_selection, scroll_top>>

\* Lines 246-253: Right or Enter.
key_drill_in_any_child ==
    /\ At("main", "getch")
    /\ IF children # <<>>
       THEN /\ history' = Append(history, Item(children, current_selection))
            /\ current_selection' = 0
            /\ scroll_top' = 0
            /\ sort_descending' = TRUE
       ELSE UNCHANGED <<history, current_selection, scroll_top, sort_descending>>
    /\ h' = 0
    /\ Goto("main", "tree_view_frame")
    /\ UNCHANGED <<fs, aborted, lock, state, nodes, scanVars, done_arg, snap, unlocked>>

key_drill_in ==
    /\ At("main", "getch")
    /\ IF children # <<>>
          /\ nodes[Item(children, current_selection)].type = "directory"
       THEN /\ history' = Append(history, Item(children, current_selection))
            /\ current_selection' = 0
            /\ scroll_top' = 0
            /\ sort_descending' = TRUE
       ELSE UNCHANGED <<history, current_selection, scroll_top, sort_descending>>
    /\ h' = 0
    /\ Goto("main", "tree_view_frame")
    /\ UNCHANGED <<fs, aborted, lock, state, nodes, scanVars, done_arg, snap, unlocked>>

\* Lines 254-259: Left or h.
key_drill_out_popleft ==
    /\ At("main", "getch")
    /\ IF Len(history) > 1
       THEN /\ history' = Tail(history)
            /\ current_selection' = 0
            /\ scroll_top' = 0
            /\ sort_descending' = TRUE
       ELSE UNCHANGED <<history, current_selection, scroll_top, sort_descending>>
    /\ h' = 0
    /\ Goto("main", "tree_view_frame")
    /\ UNCHANGED <<fs, aborted, lock, state, nodes, scanVars, done_arg, snap, unlocked>>

key_drill_out_keeps_selection ==
    /\ At("main", "getch")
    /\ IF Len(history) > 1
       THEN /\ history' = SubSeq(history, 1, Len(history) - 1)
            /\ scroll_top' = 0
            /\ sort_descending' = TRUE
            /\ UNCHANGED current_selection
       ELSE UNCHANGED <<history, current_selection, scroll_top, sort_descending>>
    /\ h' = 0
    /\ Goto("main", "tree_view_frame")
    /\ UNCHANGED <<fs, aborted, lock, state, nodes, scanVars, done_arg, snap, unlocked>>

key_drill_out ==
    /\ At("main", "getch")
    /\ IF Len(history) > 1
       THEN /\ history' = SubSeq(history, 1, Len(history) - 1)
            /\ current_selection' = 0
            /\ scroll_top' = 0
            /\ sort_descending' = TRUE
       ELSE UNCHANGED <<history, current_selection, scroll_top, sort_descending>>
    /\ h' = 0
    /\ Goto("main", "tree_view_frame")
    /\ UNCHANGED <<fs, aborted, lock, state, nodes, scanVars, done_arg, snap, unlocked>>

\* Lines 260-261.
key_quit ==
    /\ At("main", "getch")
    /\ Goto("main", "exit")
    /\ UNCHANGED <<fs, aborted, lock, state, nodes, scanVars, done_arg, snap, unlocked,
                   navVars>>

\* --------------------------------------------------------------- Next
Next ==
    \/ count_pass
    \/ set_total_items_enter
    \/ set_total_items
    \/ build_start
    \/ build_dir
    \/ build_file
    \/ update_enter
    \/ update_scanned_items
    \/ update_counts
    \/ walk_next
    \/ walk_end
    \/ aggregate_pass
    \/ sort_pass
    \/ \E t \in Threads : set_done_enter(t)
    \/ \E t \in Threads : set_done_flag(t)
    \/ \E t \in Threads : set_done_tree(t)
    \/ main_start
    \/ get_state_enter
    \/ get_state_return
    \/ draw_dialog_done
    \/ draw_dialog_quit
    \/ draw_dialog_poll
    \/ main_set_done_arg
    \/ join_finished
    \/ join_timeout
    \/ main_check_tree
    \/ main_call_tree_view
    \/ tree_view_frame
    \/ key_up
    \/ key_down
    \/ key_sort
    \/ key_drill_in
    \/ key_drill_out
    \/ key_quit

Spec == Init /\ [][Next]_vars

\* ----------------------------------------------------------- scheduling
\* The main thread runs: every step of main and draw_dialog that waits for
\* nothing is eventually taken.  getch in draw_dialog returns after 100 ms
\* (line 115), time.sleep returns, and join returns after 2 s at the latest
\* (line 275).  The keys of draw_tree_view are the user's and are not forced.
MainStep ==
    \/ main_start
    \/ get_state_return
    \/ draw_dialog_done
    \/ draw_dialog_quit
    \/ draw_dialog_poll
    \/ main_set_done_arg
    \/ set_done_flag("main")
    \/ set_done_tree("main")
    \/ join_finished
    \/ join_timeout
    \/ main_check_tree
    \/ main_call_tree_view

\* `with self.lock` in main's calls of get_state and set_done: a thread that
\* keeps asking for a lock that is released again and again gets it.
MainLock == get_state_enter \/ set_done_enter("main")

\* The bodies of the scanner's ScanState calls: a few assignments made while
\* holding the lock, with nothing to wait for.
ScannerCritical ==
    \/ set_total_items
    \/ update_scanned_items
    \/ update_counts
    \/ set_done_flag("scanner")
    \/ set_done_tree("scanner")

\* `with self.lock` in the scanner's calls.
ScannerLock ==
    \/ set_total_items_enter
    \/ update_enter
    \/ set_done_enter("scanner")

\* The scanner's own work: the two walks of the file system, the aggregate
\* pass and the sort pass.
ScannerWork ==
    \/ count_pass
    \/ build_start
    \/ build_dir
    \/ build_file
    \/ walk_next
    \/ walk_end
    \/ aggregate_pass
    \/ sort_pass

\* The main thread is scheduled and the scanner leaves its critical sections,
\* but the scanner's work on the file system may take for ever.
AbortSpec ==
    /\ Spec
    /\ WF_vars(MainStep)
    /\ SF_vars(MainLock)
    /\ WF_vars(ScannerCritical)

\* Both threads are scheduled fairly and the file system is finite.
FairSpec ==
    /\ Spec
    /\ WF_vars(MainStep)
    /\ SF_vars(MainLock)
    /\ WF_vars(ScannerCritical)
    /\ SF_vars(ScannerLock)
    /\ WF_vars(ScannerWork)


\* Line 129: progress = scanned_items / total_items if total_items > 0 else 1,
\* kept as the fraction <<numerator, denominator>> of a snapshot s.
progress(s) == IF s[1] > 0 THEN <<s[2], s[1]>> ELSE <<1, 1>>

\* ============================================================== claims
Directories == { d \in DOMAIN nodes : nodes[d].type = "directory" }

\* The scanner is past its aggregate pass / its sort pass.
AfterAggregate ==
    pc.scanner \in {"sort", "set_done", "set_done_flag", "set_done_tree", "finished"}
AfterSort ==
    pc.scanner \in {"set_done", "set_done_flag", "set_done_tree", "finished"}

\* draw_tree_view has handled at least one frame.
NavStarted ==
    \/ pc.main \in {"tree_view_frame", "getch"}
    \/ pc.main = "exit" /\ history # <<>>

\* The bytes on disk below directory d: every file whose size can be read.
RECURSIVE DiskSizeUpTo(_, _)
DiskSizeUpTo(d, k) ==
    IF k = 0 THEN 0
    ELSE DiskSizeUpTo(d, k - 1)
         + (IF /\ fs.kind[k] = "file"
               /\ fs.stat[k] # OSError
               /\ OnPath(fs.par, d, k)
            THEN fs.stat[k] ELSE 0)
DiskSize(d) == DiskSizeUpTo(d, fs.n)

ChildrenSum(d) == SumStored(nodes, nodes[d].children)

\* C1: once the aggregate pass has run (and so in the published tree), the
\* size of every directory node is the sum of its children's sizes and the
\* sum of the sizes of all files below it, unreadable files counting 0; an
\* empty directory has size 0.
C1_AggregationCorrect ==
    AfterAggregate =>
        \A d \in Directories :
            /\ nodes[d].size = ChildrenSum(d)
            /\ nodes[d].size = DiskSize(d)
            /\ nodes[d].children = <<>> => nodes[d].size = 0

\* A published tree with a nested, non-empty directory, whose size the
\* root includes, and a file whose size could not be read.
C1_Witness ==
    /\ state.tree = root_node
    /\ \E d \in Directories \ {root_node} :
        /\ nodes[d].size > 0
        /\ nodes[root_node].size = nodes[d].size
    /\ \E i \in 1..fs.n : fs.stat[i] = OSError

\* C2: every tuple returned by get_state has dir_count + file_count equal
\* to scanned_items, however update and get_state interleave.
C2_SnapshotConsistent ==
    snap # NoSnap => snap[3] + snap[4] = snap[2]

\* The display holds a snapshot of a scan in progress and asks for the next
\* one while the scanner is in the middle of an update.
C2_Witness ==
    /\ At("main", "get_state")
    /\ At("scanner", "update_counts")
    /\ snap # NoSnap
    /\ snap[2] > 0
    /\ state.dir_count + state.file_count # state.scanned_items

\* The build pass has linked every directory and every file whose size
\* could be read.
BuildComplete ==
    DOMAIN nodes = {root_node} \cup { i \in 1..fs.n : fs.stat[i] # OSError }
Aggregated == \A d \in Directories : nodes[d].size = ChildrenSum(d)
NonIncreasing(d) ==
    \A k \in 1..(Len(nodes[d].children) - 1) :
        nodes[nodes[d].children[k]].size >= nodes[nodes[d].children[k + 1]].size
SortedDescending == \A d \in Directories : NonIncreasing(d)

\* C3: the tree handed to draw_tree_view is the root of a tree on which the
\* build, aggregate and sort passes have completed, in every interleaving.
C3_NavigatesFinishedTree ==
    At("main", "draw_tree_view") =>
        /\ history = <<root_node>>
        /\ At("scanner", "finished")
        /\ BuildComplete
        /\ Aggregated
        /\ SortedDescending

\* main enters navigation with a tree of several entries.
C3_Witness ==
    /\ At("main", "draw_tree_view")
    /\ Cardinality(DOMAIN nodes) > 2

\* C4: once the scanner has stored the finished tree, main's set_done does
\* not change it: when the scanner has finished by the time main checks
\* state.tree, the tree is there and main navigates it.
C4_FinishedTreeKept ==
    (At("main", "main_check_tree") /\ At("scanner", "finished")) =>
        state.tree = root_node

InDrawTreeView == pc.main \in {"draw_tree_view", "tree_view_frame", "getch"}

\* C5: in draw_tree_view current_selection is a valid index of the current
\* directory's children, and 0 when there are none.
C5_SelectionInRange ==
    InDrawTreeView =>
        /\ children # <<>> =>
            (0 <= current_selection /\ current_selection <= Len(children) - 1)
        /\ children = <<>> => current_selection = 0

\* C6: right after every drill-in and drill-out sort_descending is true and
\* the children of the now-current directory are in non-increasing order.
C6_DrillRestoresOrder ==
    [][(At("main", "getch") /\ history' # history) =>
        (sort_descending' /\ NonIncreasing(current_node)')]_vars

\* The place of entry e among the entries of its directory, in the order
\* the build pass discovers them.
RECURSIVE IndexOf(_, _)
IndexOf(s, e) == IF Head(s) = e THEN 1 ELSE 1 + IndexOf(Tail(s), e)
Discovery(e) ==
    IndexOf(Dirs(fs, fs.par[e]) \o Files(fs, fs.par[e]), e)

\* The example: directory A holding one 2-byte file, and a 1-byte file.
IsExampleTree ==
    /\ fs.n = 3
    /\ fs.kind = <<"directory", "file", "file">>
    /\ fs.par = <<0, 1, 0>>
    /\ fs.stat = <<0, 2, 1>>

\* C7: in the tree the scanner publishes, the children of every directory
\* are in non-increasing order of size and children of equal size are in
\* the order the build pass discovered them.
C7_SortedStable ==
    (AfterSort /\ ~NavStarted) =>
        /\ \A d \in Directories :
            /\ NonIncreasing(d)
            /\ \A j, k \in DOMAIN nodes[d].children :
                (j < k /\ nodes[nodes[d].children[j]].size
                            = nodes[nodes[d].children[k]].size)
                    => Discovery(nodes[d].children[j])
                        < Discovery(nodes[d].children[k])
        /\ IsExampleTree => nodes[root_node].children = <<1, 3>>

\* The example tree is published: A, discovered first, is also the larger.
C7_Witness ==
    /\ state.tree = root_node
    /\ ~NavStarted
    /\ IsExampleTree
    /\ nodes[1].size = 2

\* C8: every access to a ScanState field is made holding ScanState.lock.
C8_AllAccessLocked == unlocked = {}

AfterBuild ==
    pc.scanner \in {"aggregate", "sort", "set_done", "set_done_flag",
                    "set_done_tree", "finished"}

\* C9: every file entry visited by the build pass has a File node linked
\* into its parent's children, of size 0 when its size could not be read,
\* and was counted once: after the build the tree has scanned_items nodes
\* besides the root.
C9_EveryEntryLinked ==
    AfterBuild =>
        /\ \A i \in 1..fs.n :
            fs.kind[i] = "file" =>
                /\ i \in DOMAIN nodes
                /\ nodes[i].size = (IF fs.stat[i] = OSError THEN 0 ELSE fs.stat[i])
        /\ Cardinality(DOMAIN nodes) - 1 = state.scanned_items

\* C10: from one get_state snapshot to the next, scanned_items, dir_count,
\* file_count and total_size do not decrease.
C10_SnapshotsMonotonic ==
    [][(snap # NoSnap /\ snap' # NoSnap) =>
        /\ snap'[2] >= snap[2]
        /\ snap'[3] >= snap[3]
        /\ snap'[4] >= snap[4]
        /\ snap'[5] >= snap[5]]_vars

\* The display holds a snapshot of a scan in progress and is about to
\* replace it by one taken after further updates.
C10_Witness ==
    /\ At("main", "get_state_return")
    /\ snap # NoSnap
    /\ snap[2] > 0
    /\ state.scanned_items > snap[2]
    /\ state.total_size > snap[5]


\* The number of times x occurs in s; s and t hold the same multiset.
Occurrences(s, x) == Cardinality({ k \in DOMAIN s : s[k] = x })
Elements(s) == { s[k] : k \in DOMAIN s }
SameMultiset(s, t) ==
    /\ Len(s) = Len(t)
    /\ \A x \in Elements(s) \cup Elements(t) : Occurrences(s, x) = Occurrences(t, x)

\* C11: a toggle-sort flips sort_descending, leaves the current directory's
\* children the same multiset of nodes and every other node untouched; the
\* toggle the next key press would perform brings sort_descending back and
\* again keeps the multiset, so nothing is lost or duplicated by two toggles.
C11_TogglePreservesChildren ==
    [][key_sort =>
        /\ history' = history
        /\ SameMultiset(children', children)
        /\ \A d \in DOMAIN nodes \ {current_node} : nodes'[d] = nodes[d]
        /\ DOMAIN nodes' = DOMAIN nodes
        /\ nodes'[current_node].size = nodes[current_node].size
        /\ SameMultiset(SortBySize(children', nodes', ~sort_descending'), children)
        /\ (~sort_descending') = sort_descending]_vars

\* A directory with two children of equal size and a third has been toggled
\* to ascending order.
C11_Witness ==
    /\ At("main", "tree_view_frame")
    /\ ~sort_descending
    /\ Len(children) = 3
    /\ \E j, k \in DOMAIN children :
        j # k /\ nodes[children[j]].size = nodes[children[k]].size
    /\ ~NonIncreasing(current_node)

\* The stack without its top.
Front(s) == SubSeq(s, 1, Len(s) - 1)

\* C12: a drill-in pushes one directory onto the history stack and changes
\* no node; the drill-out that follows pops it, so the stack is the one
\* before the drill-in, with current_selection = 0 and scroll_top = 0 and
\* every children list as it was; the frame drawn in between changes neither.
C12_DrillInOutRestoresStack ==
    [][InDrawTreeView =>
        /\ Len(history') > Len(history) =>
            /\ Front(history') = history
            /\ nodes' = nodes
        /\ Len(history') < Len(history) =>
            /\ history' = Front(history)
            /\ current_selection' = 0
            /\ scroll_top' = 0
            /\ nodes' = nodes
        /\ ~At("main", "getch") => (history' = history /\ nodes' = nodes)]_vars

\* Back at the root after a drill-in and a drill-out: the root's children are
\* still in the ascending order a toggle gave them before the drill-in.
C12_Witness ==
    /\ At("main", "tree_view_frame")
    /\ history = <<root_node>>
    /\ current_selection = 0
    /\ scroll_top = 0
    /\ sort_descending
    /\ ~NonIncreasing(root_node)


\* The selection sel lies in the window of hh - 3 child rows starting at top.
InWindow(top, sel, hh) == top <= sel /\ sel < top + hh - 3

\* C15 as stated: in every frame, for every terminal height, the scroll
\* correction leaves current_selection inside the window of h - 3 rows, and
\* changes scroll_top only when the selection was outside it.
C15_SelectionVisible ==
    [][tree_view_frame =>
        /\ InWindow(scroll_top', current_selection', h')
        /\ scroll_top' # scroll_top =>
            ~InWindow(scroll_top, current_selection, h')]_vars

\* C15 amended: the same for every terminal height that leaves at least one
\* child row (h >= 4); with h <= 3 the window is empty.
C15_SelectionVisibleWhenRows ==
    [][tree_view_frame =>
        /\ h' >= 4 => InWindow(scroll_top', current_selection', h')
        /\ scroll_top' # scroll_top =>
            ~InWindow(scroll_top, current_selection, h')]_vars

\* A frame of one child row that had to scroll down to the selection.
C15_Witness ==
    /\ At("main", "getch")
    /\ h = 4
    /\ current_selection = 2
    /\ scroll_top = 2

SelectedIsFile ==
    children # <<>> /\ nodes[Item(children, current_selection)].type = "file"

\* C16: a drill-in with no children or with a file selected, and a drill-out
\* at the root, change neither the history stack, current_selection,
\* scroll_top, sort_descending nor any children list.
C16_DrillNoOp ==
    [][(\/ key_drill_in /\ (children = <<>> \/ SelectedIsFile)
        \/ key_drill_out /\ Len(history) = 1) =>
        UNCHANGED <<history, current_selection, scroll_top, sort_descending,
                    nodes>>]_vars

\* At the root, in ascending order, with a file selected below the first
\* row: a drill-in and a drill-out have both left this state as it was.
C16_Witness ==
    /\ At("main", "tree_view_frame")
    /\ history = <<root_node>>
    /\ SelectedIsFile
    /\ current_selection > 0
    /\ ~sort_descending

\* C18: the history stack is never empty, starts at the tree root, holds
\* directories only, and each element after the first is a child of the
\* element before it.
C18_HistoryIsPath ==
    (InDrawTreeView \/ NavStarted) =>
        /\ history # <<>>
        /\ history[1] = root_node
        /\ \A k \in DOMAIN history :
            /\ history[k] \in DOMAIN nodes
            /\ nodes[history[k]].type = "directory"
            /\ k > 1 => history[k] \in Elements(nodes[history[k - 1]].children)

\* Two drill-ins deep.
C18_Witness ==
    /\ At("main", "getch")
    /\ Len(history) = 3

\* The scanner is in its set_done(root_node) call or has returned from it.
ScannerAtSetDone ==
    pc.scanner \in {"set_done", "set_done_flag", "set_done_tree", "finished"}

\* C19: the count pass and the build pass walk the same tree, so every
\* snapshot has scanned_items <= total_items, the progress fraction drawn from
\* it lies in [0, 1] (1 when total_items is 0), and scanned_items equals
\* total_items when the scanner calls set_done.
C19_ProgressBounded ==
    /\ snap # NoSnap =>
        /\ snap[2] <= snap[1]
        /\ progress(snap)[2] > 0
        /\ 0 <= progress(snap)[1]
        /\ progress(snap)[1] <= progress(snap)[2]
        /\ snap[1] = 0 => progress(snap) = <<1, 1>>
    /\ ScannerAtSetDone => state.scanned_items = state.total_items

\* A snapshot taken in the middle of the build pass, strictly between 0 and 1.
C19_Witness ==
    /\ snap # NoSnap
    /\ 0 < snap[2]
    /\ snap[2] < snap[1]
    /\ pc.scanner = "build"

\* C20: when the scanner calls set_done(root_node), the total_size summed by
\* the update calls equals the aggregated size of root_node, whichever files
\* failed their size lookup.
C20_TotalSizeIsRootSize ==
    ScannerAtSetDone => state.total_size = nodes[root_node].size

\* set_done is being called on a tree with a readable file inside a
\* subdirectory and a file whose size lookup failed.
C20_Witness ==
    /\ pc.scanner = "set_done"
    /\ state.total_size > 0
    /\ \E e \in 1..fs.n : fs.stat[e] = OSError
    /\ \E e \in 1..fs.n : fs.kind[e] = "file" /\ fs.par[e] # 0 /\ fs.stat[e] > 0

\* The stage of scanner_worker's pipeline the scanner is in.
Stage ==
    CASE pc.scanner = "count" -> 0
      [] pc.scanner \in {"set_total_items", "set_total_items_body"} -> 1
      [] pc.scanner \in {"build_start", "build", "update",
                         "update_scanned_items", "update_counts"} -> 2
      [] pc.scanner = "aggregate" -> 3
      [] pc.scanner = "sort" -> 4
      [] pc.scanner \in {"set_done", "set_done_flag", "set_done_tree"} -> 5
      [] pc.scanner = "finished" -> 6

\* What the calls made so far say about the stage, and the stage about the
\* tree.
PipelineState ==
    /\ calls.set_total_items <= 1
    /\ calls.set_done <= 1
    /\ Stage = 0 => calls.set_total_items = 0
    /\ Stage <= 1 => calls.update = 0 /\ state.scanned_items = 0
    /\ Stage >= 2 => calls.set_total_items = 1
    /\ Stage <= 2 => calls.update <= fs.n /\ \A d \in Directories : nodes[d].size = 0
    /\ Stage >= 3 => calls.update = fs.n /\ state.scanned_items = fs.n
    /\ Stage \in {4, 5} => Aggregated
    /\ Stage <= 4 => calls.set_done = 0 /\ state.tree = None
    /\ Stage = 5 =>
        /\ SortedDescending
        /\ done_arg.scanner = root_node
        /\ calls.set_done = IF pc.scanner = "set_done" THEN 0 ELSE 1
    /\ Stage = 6 => calls.set_done = 1

\* C17: the scanner's pipeline is strictly ordered: set_total_items is called
\* once and has returned before the first update, all updates are made before
\* the aggregate pass, set_done(root_node) is called once, after the
\* aggregate and sort passes, and after that call the scanner changes neither
\* ScanState nor the tree.
C17_PipelineOrder ==
    /\ PipelineState
    /\ [][/\ PipelineState'
          /\ Stage' \in {Stage, Stage + 1}
          /\ Stage = 6 =>
               /\ UNCHANGED scanVars
               /\ state' # state => lock = "main"
               /\ nodes' # nodes => At("main", "getch")]_vars

\* The scanner has returned from set_done after a scan with several updates,
\* and main is still polling.
C17_Witness ==
    /\ pc.scanner = "finished"
    /\ calls = [set_total_items |-> 1, update |-> MaxEntries, set_done |-> 1]
    /\ pc.main = "get_state"
    /\ state.tree = root_node
    /\ \E d \in Directories : d # root_node /\ nodes[d].children # <<>>

\* main is in draw_tree_view or has left it or skipped it.
NavigationOrExit == InDrawTreeView \/ At("main", "exit")

\* C13: once a quit key was pressed on the progress screen, main sets done
\* and reaches navigation or the end of the program, even when the scanner
\* never finishes its work.
C13_AbortReachesEnd == aborted ~> (state.done /\ NavigationOrExit)

\* main has reached the end of the program after an abort while the scanner
\* is still in its build pass.
C13_Witness ==
    /\ aborted
    /\ At("main", "exit")
    /\ At("scanner", "build")
    /\ state.done
    /\ state.scanned_items > 0

\* C14: under fair scheduling and without a quit key on the progress screen,
\* the scanner calls set_done, draw_dialog sees done in a snapshot and
\* returns, and main enters navigation on the finished tree.
C14_ScanReachesNavigation ==
    <>(\/ aborted
       \/ /\ At("main", "draw_tree_view")
          /\ history = <<root_node>>
          /\ state.tree = root_node
          /\ state.done
          /\ calls.set_done = 1
          /\ At("scanner", "finished")
          /\ BuildComplete
          /\ Aggregated
          /\ SortedDescending)

\* main enters navigation on the tree of a full-size scan, no key pressed.
C14_Witness ==
    /\ ~aborted
    /\ At("main", "draw_tree_view")
    /\ history = <<root_node>>
    /\ fs.n = MaxEntries
    /\ At("scanner", "finished")

====
